---- MODULE Spec2Model ----
(***************************************************************************)
(* git-identify: the bounded-concurrency batch orchestrator                *)
(* (generateBatchIdentifiers, src/mjs/src/utils/git.mjs), the manifest     *)
(* change detection (src/mjs/src/change-detection.mjs), the metadata       *)
(* normalizer (metadata/normalizer.mjs, utils/path.mjs, utils/hash.mjs),   *)
(* generateIdentifier (src/mjs/src/identifier.mjs), the comparison and     *)
(* manifest file helpers of change-detection.mjs, and the repository       *)
(* handle and batch processor of the v1 module.  Each part has its own     *)
(* specification: SpecBatch (FairSpecBatch with the event loop's           *)
(* fairness), SpecDiff, SpecNorm, SpecGen, SpecUtil and SpecV1.            *)
(*                                                                         *)
(* JavaScript runs the orchestrator on one thread: the body of the for     *)
(* loop runs without interruption until it reaches an await, and the       *)
(* continuation of a processOne call (everything after its adapter call    *)
(* settles) runs without interruption as well.  Each such run-to-await     *)
(* stretch is one action here.                                             *)
(***************************************************************************)
EXTENDS Integers, Sequences, FiniteSets, TLC

\* Largest batch and largest concurrency option that are explored.
MaxItems == 3
MaxConc == 2

\* JavaScript's null and undefined (a property that is absent reads undefined).
Null == "<null>"
Undefined == "<undefined>"

(***************************************************************************)
(* What an input item makes its pipeline do:                               *)
(*   ok        valid discriminator, the adapter resolves, generate works   *)
(*   invalid   the discriminator check throws before any await             *)
(*   notFound  the adapter call rejects                                    *)
(*   badMeta   the adapter resolves and generateIdentifier throws          *)
(***************************************************************************)
Kinds == {"ok", "invalid", "notFound", "badMeta"}

VARIABLES
  inputs,            \* the batch: a sequence of Kinds; item k has filePath PathOf(k)
  concurrency,       \* options.concurrency
  continueOnError,   \* options.continueOnError
  progressCallback,  \* TRUE when options.progressCallback is a function
  pc,                \* where generateBatchIdentifiers is: loop, race, allSettled, resolved, rejected
  i,                 \* the for loop's index (1-based)
  promise,           \* promise[k]: state of the promise processOne(inputs[k]) returned
  result,            \* result[k]: the result object of processOne(inputs[k])
  processing,        \* the array of promises
  results,           \* the array of results
  completed,         \* the progress counter
  progressLog,       \* the calls progressCallback has received, oldest first
  raceWinner,        \* the promise that decided the pending Promise.race, 0 while undecided
  rejection,         \* the message generateBatchIdentifiers rejected with, Null otherwise
  current,           \* generateChangeReport: its first argument
  previous,          \* generateChangeReport: its second argument (the manifest)
  diffPc,            \* change detection: "call", then "returned" (report built), then
                     \* "snapshot" (manifest built), then "recompared" (the batch
                     \* compared with its own manifest); "idle" when it is not in use
  report,            \* generateChangeReport: what it returned
  manifest,          \* createManifest(current): what it returned
  meta,              \* the raw metadata record handed to normalizeMetadata / generateIdentifier
  options,           \* generateIdentifier: its options argument
  idPc,              \* "call", then "normalized" and "renormalized" (normalizeMetadata) or
                     \* "generated" (generateIdentifier); "idle" when not in use
  normalized,        \* what normalizeMetadata(meta) returned or threw
  renormalized,      \* what normalizeMetadata did with its own output
  generated,         \* what generateIdentifier(meta, options) returned or threw
  callee,            \* the change-detection helper that is called: "hasFileChanged",
                     \* "compareIdentifier" or "saveManifest"; "none" when not in use
  args,              \* its two arguments
  callPc,            \* "call", then "returned"; after saveManifest, "loaded" once
                     \* loadManifest has read the string back; "idle" when not in use
  returned,          \* what the callee returned
  loaded,            \* what loadManifest returned or threw for the saved string
  isInitialized,     \* v1 GitFileId: this.isInitialized
  initialized,       \* v1 GitBatchProcessor: this.initialized
  calls,             \* v1: the calls made so far on the GitFileId and on the
                     \* GitBatchProcessor that owns it, each with its promise's state
  backendLog         \* v1: the methods invoked on the backend instance, oldest first

batchVars == <<inputs, concurrency, continueOnError, progressCallback, pc, i, promise,
               result, processing, results, completed, progressLog, raceWinner, rejection>>
diffVars == <<current, previous, diffPc, report, manifest>>
idVars == <<meta, options, idPc, normalized, renormalized, generated>>
utilVars == <<callee, args, callPc, returned, loaded>>
v1Vars == <<isInitialized, initialized, calls, backendLog>>
vars == <<batchVars, diffVars, idVars, utilVars, v1Vars>>

total == Len(inputs)
Items == 1..total

\* The change detection is not in use.
DiffIdle ==
  /\ current = <<>>
  /\ previous = <<>>
  /\ diffPc = "idle"
  /\ report = <<>>
  /\ manifest = <<>>

\* Neither normalizeMetadata nor generateIdentifier is in use.
IdIdle ==
  /\ meta = <<>>
  /\ options = <<>>
  /\ idPc = "idle"
  /\ normalized = <<>>
  /\ renormalized = <<>>
  /\ generated = <<>>

\* The v1 classes are not in use.
V1Idle ==
  /\ isInitialized = FALSE
  /\ initialized = FALSE
  /\ calls = <<>>
  /\ backendLog = <<>>

\* No change-detection helper is called.
UtilIdle ==
  /\ callee = "none"
  /\ args = <<>>
  /\ callPc = "idle"
  /\ returned = <<>>
  /\ loaded = <<>>

\* No batch is running.
BatchIdle ==
  /\ inputs = <<>>
  /\ concurrency = 1
  /\ continueOnError = TRUE
  /\ progressCallback = FALSE
  /\ pc = "resolved"
  /\ i = 1
  /\ promise = <<>>
  /\ result = <<>>
  /\ processing = <<>>
  /\ results = <<>>
  /\ completed = 0
  /\ progressLog = <<>>
  /\ raceWinner = 0
  /\ rejection = Null

PathOf(k) == "f" \o ToString(k)
IdOf(k) == "sha256:" \o ToString(k)
ShortOf(k) == "short" \o ToString(k)
MetaOf(k) == "meta" \o ToString(k)

\* The message of the error the pipeline of an item of this kind throws.
ErrorMessage(kind) ==
  CASE kind = "invalid" -> "Invalid input type"
    [] kind = "notFound" -> "File not found"
    [] kind = "badMeta" -> "Missing required field"
    [] OTHER -> Null

Threw(kind) == kind # "ok"

\* processOne's result object as first built (lines 221-227).
InitialResult(k) ==
  [filePath |-> PathOf(k), identifier |-> Null, status |-> "error", error |-> Null,
   metadata |-> Null, short |-> Undefined]

\* The result object once the try/catch of processOne has run (lines 229-265).
FinishedResult(k) ==
  IF Threw(inputs[k])
  THEN [InitialResult(k) EXCEPT !.error = ErrorMessage(inputs[k])]
  ELSE [InitialResult(k) EXCEPT !.identifier = IdOf(k), !.status = "success",
                                !.metadata = MetaOf(k), !.short = ShortOf(k)]

\* Mutant of SettledState: the catch block rethrows whatever continueOnError says.
SettledState_AlwaysRethrow(k) ==
  IF Threw(inputs[k]) THEN "rejected" ELSE "fulfilled"

\* How the promise of processOne settles: the catch block rethrows only when
\* continueOnError is off (lines 262-264), otherwise the function returns result.
SettledState(k) ==
  IF Threw(inputs[k]) /\ ~continueOnError THEN "rejected" ELSE "fulfilled"

\* Mutant of ProgressAfter: the callback is handed the counter before it is
\* incremented.
ProgressAfter_BeforeCount(k) ==
  IF progressCallback
  THEN Append(progressLog, [done |-> completed, total |-> total, item |-> k])
  ELSE progressLog

\* The finally block (lines 265-271): count, then report progress.
ProgressAfter(k) ==
  IF progressCallback
  THEN Append(progressLog, [done |-> completed + 1, total |-> total, item |-> k])
  ELSE progressLog

IsSettled(k) == promise[k] \in {"fulfilled", "rejected"}

\* Array.prototype.indexOf with strict equality, 1-based; 0 when absent (-1 in JS).
IndexOf(arr, x) ==
  IF \E j \in 1..Len(arr) : arr[j] = x
  THEN CHOOSE j \in 1..Len(arr) : arr[j] = x /\ \A h \in 1..(j - 1) : arr[h] # x
  ELSE 0

\* Array.prototype.splice(index, 1), 1-based.
Splice(arr, index) ==
  [j \in 1..(Len(arr) - 1) |-> IF j < index THEN arr[j] ELSE arr[j + 1]]

\* The promise handles held in processing.
PromiseOf(k) == [promise |-> k]

\* Promise.race over an array some of whose promises are already settled is decided
\* by the first settled one in array order; 0 when all are pending.
FirstSettled(arr) ==
  IF \E j \in 1..Len(arr) : IsSettled(arr[j].promise)
  THEN arr[CHOOSE j \in 1..Len(arr) :
             IsSettled(arr[j].promise) /\ \A h \in 1..(j - 1) : ~IsSettled(arr[h].promise)].promise
  ELSE 0

BatchInputs == UNION {[1..n -> Kinds] : n \in 0..MaxItems}

InitBatch ==
  /\ inputs \in BatchInputs
  /\ concurrency \in 1..MaxConc
  /\ continueOnError \in BOOLEAN
  /\ progressCallback \in BOOLEAN
  /\ pc = IF Len(inputs) = 0 THEN "resolved" ELSE "loop"
  /\ i = 1
  /\ promise = [k \in 1..Len(inputs) |-> "unstarted"]
  /\ result = [k \in 1..Len(inputs) |-> Null]
  /\ processing = <<>>
  /\ results = <<>>
  /\ completed = 0
  /\ progressLog = <<>>
  /\ raceWinner = 0
  /\ rejection = Null
  /\ DiffIdle
  /\ IdIdle
  /\ UtilIdle
  /\ V1Idle

\* One iteration of the for loop up to its await (lines 281-288): processOne runs
\* synchronously to its first await, which an invalid item never reaches.
StartItem ==
  /\ pc = "loop"
  /\ LET sync == inputs[i] = "invalid"
         started == [promise EXCEPT ![i] = IF sync THEN SettledState(i) ELSE "pending"]
         pushed == Append(processing, PromiseOf(i))
     IN /\ promise' = started
        /\ result' = [result EXCEPT ![i] = IF sync THEN FinishedResult(i) ELSE InitialResult(i)]
        /\ completed' = IF sync THEN completed + 1 ELSE completed
        /\ progressLog' = IF sync THEN ProgressAfter(i) ELSE progressLog
        /\ processing' = pushed
        /\ IF Len(pushed) >= concurrency
           THEN /\ pc' = "race"
                /\ raceWinner' = IF sync /\ FirstSettled(processing) = 0 THEN i
                                 ELSE FirstSettled(processing)
                /\ i' = i
           ELSE /\ pc' = IF i = total THEN "allSettled" ELSE "loop"
                /\ raceWinner' = 0
                /\ i' = i + 1
  /\ UNCHANGED <<inputs, concurrency, continueOnError, progressCallback, results, rejection,
                 diffVars, idVars, utilVars, v1Vars>>

\* Mutant of CanSettle: a batch that has rejected abandons the pipelines in flight.
CanSettle_UntilRejected(k) ==
  pc \notin {"loop", "rejected"} /\ promise[k] = "pending"

\* When the pipeline of a started item can run on: the orchestrator has yielded at an
\* await or has returned, and nothing cancels processOne (lines 220-274 hold no abort
\* check), so a rejected batch leaves it running.
CanSettle(k) ==
  pc # "loop" /\ promise[k] = "pending"

\* The adapter call of item k settles and processOne runs to its end (lines 242-273).
\* The orchestrator is suspended at an await, or has returned.
Settle(k) ==
  /\ CanSettle(k)
  /\ promise' = [promise EXCEPT ![k] = SettledState(k)]
  /\ result' = [result EXCEPT ![k] = FinishedResult(k)]
  /\ completed' = completed + 1
  /\ progressLog' = ProgressAfter(k)
  /\ raceWinner' = IF /\ pc = "race"
                      /\ raceWinner = 0
                      /\ \E j \in 1..Len(processing) : processing[j] = PromiseOf(k)
                   THEN k
                   ELSE raceWinner
  /\ UNCHANGED <<inputs, concurrency, continueOnError, progressCallback, pc, i, processing,
                 results, rejection, diffVars, idVars, utilVars, v1Vars>>

\* await Promise.race(processing) resumes with a value (lines 288-296).
RaceFulfilled ==
  /\ pc = "race"
  /\ raceWinner # 0
  /\ promise[raceWinner] = "fulfilled"
  /\ LET settled == result[raceWinner]
         index == IndexOf(processing, settled)
     IN /\ results' = Append(results, settled)
        /\ processing' = IF index > 0 THEN Splice(processing, index) ELSE processing
  /\ pc' = IF i = total THEN "allSettled" ELSE "loop"
  /\ i' = i + 1
  /\ raceWinner' = 0
  /\ UNCHANGED <<inputs, concurrency, continueOnError, progressCallback, promise, result,
                 completed, progressLog, rejection, diffVars, idVars, utilVars, v1Vars>>

\* await Promise.race(processing) throws: generateBatchIdentifiers rejects (line 288).
RaceRejected ==
  /\ pc = "race"
  /\ raceWinner # 0
  /\ promise[raceWinner] = "rejected"
  /\ pc' = "rejected"
  /\ rejection' = result[raceWinner].error
  /\ raceWinner' = 0
  /\ UNCHANGED <<inputs, concurrency, continueOnError, progressCallback, i, promise, result,
                 processing, results, completed, progressLog, diffVars, idVars, utilVars, v1Vars>>

\* What Promise.allSettled reports for one promise, mapped as on line 301:
\* r.value || { status: 'error', error: r.reason?.message }.
RemainingEntry(p) ==
  IF promise[p.promise] = "fulfilled"
  THEN result[p.promise]
  ELSE [filePath |-> Undefined, identifier |-> Undefined, status |-> "error",
        error |-> result[p.promise].error, metadata |-> Undefined, short |-> Undefined]

\* await Promise.allSettled(processing) resumes and the function returns (lines 299-303).
AllSettled ==
  /\ pc = "allSettled"
  /\ \A j \in 1..Len(processing) : IsSettled(processing[j].promise)
  /\ results' = results \o [j \in 1..Len(processing) |-> RemainingEntry(processing[j])]
  /\ pc' = "resolved"
  /\ UNCHANGED <<inputs, concurrency, continueOnError, progressCallback, i, promise, result,
                 processing, completed, progressLog, raceWinner, rejection, diffVars, idVars, utilVars, v1Vars>>

NextBatch ==
  \/ StartItem
  \/ \E k \in Items : Settle(k)
  \/ RaceFulfilled
  \/ RaceRejected
  \/ AllSettled

SpecBatch == InitBatch /\ [][NextBatch]_vars

(***************************************************************************)
(* Claims about the batch orchestrator, checked under SpecBatch.           *)
(***************************************************************************)

Started == {k \in Items : promise[k] # "unstarted"}
InFlight == {k \in Items : promise[k] = "pending"}
Quiescent == pc \in {"resolved", "rejected"} /\ InFlight = {}

\* C1: the number of items whose pipeline has been started and has not yet settled
\* never exceeds concurrency.
C1_InFlightWithinConcurrency == Cardinality(InFlight) <= concurrency

\* C2: with continueOnError true, the resolved array has exactly inputs.length
\* elements.
C2_ResultLengthIsInputLength ==
  (continueOnError /\ pc = "resolved") => Len(results) = total

\* C3: with continueOnError true, the resolved array holds an entry for every input
\* item, and an item's entries have status 'error' (error = the thrown message,
\* identifier = null) exactly when its own pipeline threw and status 'success'
\* otherwise, whatever the sibling items did.
C3_StatusMatchesOwnPipeline ==
  (continueOnError /\ pc = "resolved") =>
    \A k \in Items :
      /\ \E j \in 1..Len(results) : results[j].filePath = PathOf(k)
      /\ \A j \in 1..Len(results) :
           results[j].filePath = PathOf(k) =>
             IF Threw(inputs[k])
             THEN /\ results[j].status = "error"
                  /\ results[j].error = ErrorMessage(inputs[k])
                  /\ results[j].identifier = Null
             ELSE /\ results[j].status = "success"
                  /\ results[j].identifier = IdOf(k)

\* C3 witness: a resolved batch in which one item failed and a sibling succeeded.
C3_Witness ==
  /\ continueOnError
  /\ pc = "resolved"
  /\ \E k, h \in Items : Threw(inputs[k]) /\ ~Threw(inputs[h])
  /\ \E j, h \in 1..Len(results) : results[j].status = "error" /\ results[h].status = "success"

\* C4: with continueOnError false, whenever some item's pipeline throws, the returned
\* promise rejects with that item's error, and once an item has thrown no item that
\* was not yet started is started.
C4_FirstErrorRejectsAndStops ==
  /\ [](~continueOnError =>
          /\ (pc = "resolved" => \A k \in Items : promise[k] # "rejected")
          /\ (pc = "rejected" =>
                \E k \in Items : promise[k] = "rejected" /\ rejection = result[k].error))
  /\ [][(~continueOnError /\ \E k \in Items : promise[k] = "rejected")
          => Started' = Started]_vars

\* C5 as claimed: once a batch run with a progressCallback is over, the callback has
\* been invoked exactly N times, once per item, with done = 1, 2, ..., N and total = N.
C5_ProgressCalledForEveryItem ==
  (progressCallback /\ Quiescent) =>
    /\ Len(progressLog) = total
    /\ \A j \in 1..Len(progressLog) : progressLog[j].done = j /\ progressLog[j].total = total
    /\ \A k \in Items : \E j \in 1..Len(progressLog) : progressLog[j].item = k

\* C5 as amended: the callback is invoked exactly once per item whose pipeline has
\* finished and only after it has finished, the successive calls carry done = 1, 2, ...
\* with total = N, and a batch that resolves with continueOnError true has made
\* exactly N calls.
C5_ProgressOncePerFinishedItem ==
  progressCallback =>
    /\ \A j \in 1..Len(progressLog) :
         /\ progressLog[j].done = j
         /\ progressLog[j].total = total
         /\ IsSettled(progressLog[j].item)
    /\ \A j, h \in 1..Len(progressLog) :
         progressLog[j].item = progressLog[h].item => j = h
    /\ \A k \in Items : IsSettled(k) => \E j \in 1..Len(progressLog) : progressLog[j].item = k
    /\ (continueOnError /\ pc = "resolved") => Len(progressLog) = total

\* C5 witness: a resolved batch of several items, one of them failed, all reported.
C5_Witness ==
  /\ progressCallback
  /\ continueOnError
  /\ pc = "resolved"
  /\ total >= 3
  /\ Len(progressLog) = total
  /\ progressLog[total].done = total
  /\ \E k \in Items : Threw(inputs[k])

\* A batch item result is well formed: exactly one of (status success, identifier
\* non-null) and (status error, error set, identifier null).
WellFormedResult(r) ==
  LET ok == r.status = "success" /\ r.identifier \notin {Null, Undefined}
      failed == r.status = "error" /\ r.error \notin {Null, Undefined} /\ r.identifier = Null
  IN (ok \/ failed) /\ ~(ok /\ failed)

\* C6: every element of the resolved array, under any options, is well formed.
C6_EveryResultWellFormed ==
  pc = "resolved" => \A j \in 1..Len(results) : WellFormedResult(results[j])

(***************************************************************************)
(* generateChangeReport (change-detection.mjs).  A pure function: SpecDiff  *)
(* draws its two arguments and applies it.                                  *)
(***************************************************************************)

\* Longest currentResults list that is explored.
MaxResults == 3

\* File paths of current items, and the keys a manifest may hold.  A file path is a
\* non-empty string: normalizeMetadata rejects an empty filePath and createManifest
\* never stores a falsy one.
DiffPaths == {"a", "b"}
ManifestKeys == {"a", "b", "c"}
\* Identifiers of successful items, and the values a manifest may store ("" stands
\* for a stored value that is falsy).
DiffIds == {"id1", "id2"}
ManifestValues == {"id1", ""}

\* The batch results generateChangeReport may be handed: successes, errors, and
\* entries without filePath (undefined).
CurrentItems ==
  {[filePath |-> p, identifier |-> id, status |-> "success", error |-> Null] :
     p \in DiffPaths \cup {Undefined}, id \in DiffIds}
  \cup {[filePath |-> p, identifier |-> Null, status |-> "error", error |-> "boom"] :
          p \in DiffPaths \cup {Undefined}}

CurrentLists == UNION {[1..n -> CurrentItems] : n \in 0..MaxResults}
Manifests == UNION {[keys -> ManifestValues] : keys \in SUBSET ManifestKeys}

\* JavaScript truthiness of the values that occur here.
Falsy(v) == v \in {Undefined, Null, ""}

\* previous[filePath]: undefined when the key is absent.
Lookup(prev, key) == IF key \in DOMAIN prev THEN prev[key] ELSE Undefined

\* Object.keys(previous), in a fixed enumeration order.
KeyOrder == <<"a", "b", "c">>
ObjectKeys(prev) == SelectSeq(KeyOrder, LAMBDA key : key \in DOMAIN prev)

EmptyReport ==
  [added |-> <<>>, modified |-> <<>>, unchanged |-> <<>>, removed |-> <<>>, errors |-> <<>>]

\* Mutant of ProcessResult: the path is added to seenFiles only after the error
\* branch, so that an erroring file is not seen.
ProcessResult_ErrorsNotSeen(acc, r, prev) ==
  IF Falsy(r.filePath)
  THEN acc
  ELSE LET seen == [acc EXCEPT !.seenFiles = @ \cup {r.filePath}]
           previousId == Lookup(prev, r.filePath)
       IN IF r.status = "error"
          THEN [acc EXCEPT !.report.errors =
                             Append(@, [filePath |-> r.filePath, error |-> r.error])]
          ELSE IF Falsy(previousId)
          THEN [seen EXCEPT !.report.added = Append(@, r.filePath)]
          ELSE IF r.identifier # previousId
          THEN [seen EXCEPT !.report.modified = Append(@, r.filePath)]
          ELSE [seen EXCEPT !.report.unchanged = Append(@, r.filePath)]

\* One iteration of the loop over current (lines 69-97); acc carries the report
\* and seenFiles.
ProcessResult(acc, r, prev) ==
  IF Falsy(r.filePath)
  THEN acc
  ELSE LET seen == [acc EXCEPT !.seenFiles = @ \cup {r.filePath}]
           previousId == Lookup(prev, r.filePath)
       IN IF r.status = "error"
          THEN [seen EXCEPT !.report.errors =
                              Append(@, [filePath |-> r.filePath, error |-> r.error])]
          ELSE IF Falsy(previousId)
          THEN [seen EXCEPT !.report.added = Append(@, r.filePath)]
          ELSE IF r.identifier # previousId
          THEN [seen EXCEPT !.report.modified = Append(@, r.filePath)]
          ELSE [seen EXCEPT !.report.unchanged = Append(@, r.filePath)]

RECURSIVE ProcessCurrent(_, _, _)
ProcessCurrent(acc, cur, prev) ==
  IF cur = <<>> THEN acc
  ELSE ProcessCurrent(ProcessResult(acc, Head(cur), prev), Tail(cur), prev)

\* Mutant of RemovedFiles: the test of seenFiles has lost its negation.
RemovedFiles_SeenKeys(prev, seenFiles) ==
  SelectSeq(ObjectKeys(prev), LAMBDA filePath : filePath \in seenFiles)

\* The loop over Object.keys(previous) (lines 99-104).
RemovedFiles(prev, seenFiles) ==
  SelectSeq(ObjectKeys(prev), LAMBDA filePath : filePath \notin seenFiles)

generateChangeReport(cur, prev) ==
  LET acc == ProcessCurrent([report |-> EmptyReport, seenFiles |-> {}], cur, prev)
  IN [acc.report EXCEPT !.removed = RemovedFiles(prev, acc.seenFiles)]

InitDiff ==
  /\ current \in CurrentLists
  /\ previous \in Manifests
  /\ diffPc = "call"
  /\ report = <<>>
  /\ manifest = <<>>
  /\ BatchIdle
  /\ IdIdle
  /\ UtilIdle
  /\ V1Idle

Diff ==
  /\ diffPc = "call"
  /\ diffPc' = "returned"
  /\ report' = generateChangeReport(current, previous)
  /\ UNCHANGED <<current, previous, manifest, batchVars, idVars, utilVars, v1Vars>>

\* Mutant of ManifestEntry: the guard on result.filePath is missing.
ManifestEntry_NoPathGuard(m, r) ==
  IF r.status = "success" /\ ~Falsy(r.identifier)
  THEN [key \in DOMAIN m \cup {r.filePath} |->
          IF key = r.filePath THEN r.identifier ELSE m[key]]
  ELSE m

\* One iteration of createManifest's loop (lines 121-125): manifest[filePath] =
\* identifier for a successful result with a filePath and an identifier.
ManifestEntry(m, r) ==
  IF r.status = "success" /\ ~Falsy(r.filePath) /\ ~Falsy(r.identifier)
  THEN [key \in DOMAIN m \cup {r.filePath} |->
          IF key = r.filePath THEN r.identifier ELSE m[key]]
  ELSE m

RECURSIVE ManifestOf(_, _)
ManifestOf(m, res) ==
  IF res = <<>> THEN m ELSE ManifestOf(ManifestEntry(m, Head(res)), Tail(res))

createManifest(res) == ManifestOf(<<>>, res)

\* The caller snapshots the batch it has just compared: createManifest(current).
Snapshot ==
  /\ diffPc = "returned"
  /\ diffPc' = "snapshot"
  /\ manifest' = createManifest(current)
  /\ UNCHANGED <<current, previous, report, batchVars, idVars, utilVars, v1Vars>>

\* The caller compares the batch with the manifest just built from it:
\* generateChangeReport(results, createManifest(results)).
Recompare ==
  /\ diffPc = "snapshot"
  /\ diffPc' = "recompared"
  /\ report' = generateChangeReport(current, manifest)
  /\ UNCHANGED <<current, previous, manifest, batchVars, idVars, utilVars, v1Vars>>

NextDiff == Diff \/ Snapshot \/ Recompare

SpecDiff == InitDiff /\ [][NextDiff]_vars

(***************************************************************************)
(* Claims about generateChangeReport, checked under SpecDiff.              *)
(***************************************************************************)

Range(seq) == {seq[j] : j \in 1..Len(seq)}
Reported == diffPc \in {"returned", "snapshot"}
CurrentPaths == {current[j].filePath : j \in 1..Len(current)} \ {Undefined}
SuccessPaths ==
  {current[j].filePath : j \in {h \in 1..Len(current) : current[h].status = "success"}}
    \ {Undefined}
ErrorPaths ==
  {current[j].filePath : j \in {h \in 1..Len(current) : current[h].status = "error"}}
    \ {Undefined}
ErrorFiles == {e.filePath : e \in Range(report.errors)}

\* The lists among added, modified, unchanged, errors that name path p.
ListsNaming(p) ==
  {l \in {"added", "modified", "unchanged"} : p \in Range(report[l])}
    \cup (IF p \in ErrorFiles THEN {"errors"} ELSE {})

\* C7: each filePath that occurs in currentResults appears in exactly one of the
\* lists added, modified, unchanged, errors, also when it occurs in several items.
C7_EachPathInExactlyOneList ==
  Reported => \A p \in CurrentPaths : Cardinality(ListsNaming(p)) = 1

\* C8 as claimed: every manifest key that is not the filePath of a successful item
\* appears in removed.
C8_KeyWithoutSuccessIsRemoved ==
  Reported => \A key \in DOMAIN previous : key \notin SuccessPaths => key \in Range(report.removed)

\* C8 as amended: every manifest key that is the filePath of no current item
\* appears in removed, and a manifest key whose current items all have status
\* 'error' is listed in errors and not in removed.
C8_UnseenKeyIsRemoved ==
  Reported =>
    \A key \in DOMAIN previous :
      /\ key \notin CurrentPaths => key \in Range(report.removed)
      /\ (key \in ErrorPaths /\ key \notin SuccessPaths)
           => (key \in ErrorFiles /\ key \notin Range(report.removed))

\* C8 witness: a report over a manifest one key of which has only an error item and
\* another no item at all.
C8_Witness ==
  /\ Reported
  /\ \E key \in DOMAIN previous : key \in ErrorPaths /\ key \notin SuccessPaths
  /\ \E key \in DOMAIN previous : key \notin CurrentPaths /\ key \in Range(report.removed)

\* C9: removed is exactly the set of manifest keys that are the filePath of no item
\* of currentResults, success or error.
C9_RemovedIsExactlyUnseenKeys ==
  Reported =>
    Range(report.removed) =
      {key \in DOMAIN previous : \A j \in 1..Len(current) : current[j].filePath # key}

\* C9 witness: a report with a removed key, beside a key seen as a success and a
\* key seen as an error.
C9_Witness ==
  /\ Reported
  /\ report.removed # <<>>
  /\ \E key \in DOMAIN previous : key \in SuccessPaths
  /\ \E key \in DOMAIN previous : key \in ErrorPaths /\ key \notin SuccessPaths

\* C10: each successful item is classified by its path's presence in the manifest:
\* not a key => added; key present and stored identifier differs => modified; key
\* present and identifiers identical => unchanged, whatever the manifest stores.
C10_ClassifiedByKeyPresence ==
  Reported =>
    \A j \in 1..Len(current) :
      (current[j].status = "success" /\ current[j].filePath # Undefined) =>
        LET p == current[j].filePath
        IN /\ p \notin DOMAIN previous => p \in Range(report.added)
           /\ (p \in DOMAIN previous /\ previous[p] # current[j].identifier)
                => p \in Range(report.modified)
           /\ (p \in DOMAIN previous /\ previous[p] = current[j].identifier)
                => p \in Range(report.unchanged)

(***************************************************************************)
(* Claims about createManifest, checked under SpecDiff.                    *)
(***************************************************************************)

Snapshotted == diffPc = "snapshot"
SuccessItems == {j \in 1..Len(current) : current[j].status = "success"}
IsSuccess(r) == r.status = "success"

\* The last successful item of current with path p.
LastSuccess(p) ==
  CHOOSE j \in SuccessItems :
    current[j].filePath = p /\ \A h \in SuccessItems : current[h].filePath = p => h <= j

\* C11 as claimed: the keys of createManifest's mapping are exactly the file paths
\* of the items with status 'success', each such item's path is mapped to that
\* item's identifier, and error items add, update and delete nothing.
C11_ManifestMapsEverySuccess ==
  Snapshotted =>
    /\ DOMAIN manifest = SuccessPaths
    /\ \A j \in SuccessItems :
         current[j].filePath # Undefined => manifest[current[j].filePath] = current[j].identifier
    /\ manifest = createManifest(SelectSeq(current, IsSuccess))

\* C11 as amended: the keys are exactly the file paths of the items with status
\* 'success', each mapped to the identifier of the last such item with that path,
\* and error items add, update and delete nothing.
C11_ManifestMapsLastSuccess ==
  Snapshotted =>
    /\ DOMAIN manifest = SuccessPaths
    /\ \A p \in SuccessPaths : manifest[p] = current[LastSuccess(p)].identifier
    /\ manifest = createManifest(SelectSeq(current, IsSuccess))

\* C11 witness: a manifest built from a list with a success, an error on another
\* path and a success without filePath.
C11_Witness ==
  /\ Snapshotted
  /\ manifest # <<>>
  /\ \E p \in ErrorPaths : p \notin DOMAIN manifest
  /\ \E j \in SuccessItems : current[j].filePath = Undefined

Recompared == diffPc = "recompared"

\* C30: generateChangeReport(results, createManifest(results)) lists the path of
\* every successful item in unchanged, and its added, modified and removed lists
\* are empty, also when two items share a filePath.
C30_SelfComparisonIsUnchanged ==
  Recompared =>
    /\ \A p \in SuccessPaths : p \in Range(report.unchanged)
    /\ report.added = <<>>
    /\ report.modified = <<>>
    /\ report.removed = <<>>

(***************************************************************************)
(* Metadata normalization: normalizeFilePath (utils/path.mjs),             *)
(* isValidGitHash / validateGitHash (utils/hash.mjs), normalizeMetadata,   *)
(* sortObjectKeys and canonicalizeMetadata (metadata/normalizer.mjs).      *)
(*                                                                         *)
(* A JavaScript value is a record [type, text, num]: a string carries its  *)
(* text as a sequence of pieces (single characters for paths and hashes),  *)
(* a number carries twice its value in num, so that halves are             *)
(* representable; booleans carry 1 or 0.  An object is the sequence of its *)
(* [key, value] entries in insertion order.                                *)
(***************************************************************************)

Str(t) == [type |-> "string", text |-> t, num |-> 0]
Num2(h) == [type |-> "number", text |-> <<>>, num |-> h]
Num(n) == Num2(2 * n)
Bool(b) == [type |-> "boolean", text |-> <<>>, num |-> IF b THEN 1 ELSE 0]
NullV == [type |-> "null", text |-> <<>>, num |-> 0]
UndefinedV == [type |-> "undefined", text |-> <<>>, num |-> 0]

\* JavaScript truthiness: '', 0, false, null and undefined are falsy.
Truthy(v) ==
  CASE v.type = "string" -> v.text # <<>>
    [] v.type = "number" -> v.num # 0
    [] v.type = "boolean" -> v.num = 1
    [] v.type = "object" -> TRUE
    [] OTHER -> FALSE

Entry(k, v) == [key |-> k, value |-> v]
HasKey(obj, k) == \E j \in 1..Len(obj) : obj[j].key = k
\* obj[k]: the value of the property, undefined when the object has none.
Get(obj, k) ==
  IF HasKey(obj, k)
  THEN obj[CHOOSE j \in 1..Len(obj) : obj[j].key = k].value
  ELSE UndefinedV
Keys(obj) == {obj[j].key : j \in 1..Len(obj)}

Rep(c, n) == [k \in 1..n |-> c]
Ok(v) == [ok |-> TRUE, error |-> "", message |-> <<>>, value |-> v]
Throw(e, msg) == [ok |-> FALSE, error |-> e, message |-> msg, value |-> <<>>]

\* filePath.replace(/\\/g, '/')
BackslashesToSlashes(t) == [k \in 1..Len(t) |-> IF t[k] = "\\" THEN "/" ELSE t[k]]

\* normalized.replace(/^\.\//, ''): one leading './' is removed.
StripLeadingDotSlash(t) ==
  IF Len(t) >= 2 /\ t[1] = "." /\ t[2] = "/" THEN SubSeq(t, 3, Len(t)) ELSE t

\* normalized.replace(/\/+$/, '')
RECURSIVE StripTrailingSlashes(_)
StripTrailingSlashes(t) ==
  IF t # <<>> /\ t[Len(t)] = "/"
  THEN StripTrailingSlashes(SubSeq(t, 1, Len(t) - 1))
  ELSE t

\* normalized.replace(/\/+/g, '/')
RECURSIVE CollapseSlashes(_)
CollapseSlashes(t) ==
  IF Len(t) < 2 THEN t
  ELSE IF t[1] = "/" /\ t[2] = "/" THEN CollapseSlashes(Tail(t))
  ELSE <<t[1]>> \o CollapseSlashes(Tail(t))

\* Mutant of PosixPath: the backslashes are left as they are.
PosixPath_KeepBackslashes(t) ==
  CollapseSlashes(StripTrailingSlashes(StripLeadingDotSlash(t)))

\* The four replacements of normalizeFilePath, in the order of lines 16-25.
PosixPath(t) ==
  CollapseSlashes(StripTrailingSlashes(StripLeadingDotSlash(BackslashesToSlashes(t))))

normalizeFilePath(filePath) ==
  IF filePath.type # "string"
  THEN Throw("TypeError", <<"Expected string, got ", filePath.type>>)
  ELSE Ok(Str(PosixPath(filePath.text)))

HashLength == 40
DecDigits == {"0", "1", "2", "3", "4", "5", "6", "7", "8", "9"}
HexLower == {"a", "b", "c", "d", "e", "f"}
HexUpper == {"A", "B", "C", "D", "E", "F"}

\* /^[0-9a-f]{40}$/i on a string, false for every other type.
isValidGitHash(hash) ==
  /\ hash.type = "string"
  /\ Len(hash.text) = HashLength
  /\ \A k \in 1..Len(hash.text) : hash.text[k] \in DecDigits \cup HexLower \cup HexUpper

validateGitHash(hash, fieldName) ==
  IF isValidGitHash(hash) THEN Ok(hash)
  ELSE Throw("InvalidHashError", <<"Invalid Git hash format for ", fieldName>>)

\* String.prototype.toLowerCase on the letters the model uses.
LowerChar(c) ==
  CASE c = "A" -> "a" [] c = "B" -> "b" [] c = "C" -> "c" [] c = "D" -> "d"
    [] c = "E" -> "e" [] c = "F" -> "f" [] c = "G" -> "g" [] OTHER -> c
toLowerCase(t) == [k \in 1..Len(t) |-> LowerChar(t[k])]

(***************************************************************************)
(* new Date(value) and toISOString.  Time values are milliseconds since    *)
(* the epoch; NaN is the invalid date.  The date strings of the model are  *)
(* <<"1970-01-01T00:00:00.00", d, "Z">> and the same instant written with  *)
(* a +01:00 offset, for a digit d; every other string is unparsable.       *)
(***************************************************************************)
Time(ms) == [nan |-> FALSE, ms |-> ms]
NaN == [nan |-> TRUE, ms |-> 0]
Digits == <<"0", "1", "2", "3", "4", "5", "6", "7", "8", "9">>
DigitValue(d) == (CHOOSE k \in 1..Len(Digits) : Digits[k] = d) - 1
IsoPrefix == "1970-01-01T00:00:00.00"
OffsetPrefix == "1970-01-01T01:00:00.00"

DateParse(t) ==
  IF /\ Len(t) = 3
     /\ t[2] \in DecDigits
     /\ \/ t[1] = IsoPrefix /\ t[3] = "Z"
        \/ t[1] = OffsetPrefix /\ t[3] = "+01:00"
  THEN Time(DigitValue(t[2]))
  ELSE NaN

\* TimeClip(ToNumber(value)): a number is truncated to whole milliseconds.
TimeClip(h) == IF h >= 0 THEN h \div 2 ELSE 0 - ((0 - h) \div 2)

\* new Date(value).getTime()
DateOf(v) ==
  CASE v.type = "string" -> DateParse(v.text)
    [] v.type = "number" -> Time(TimeClip(v.num))
    [] v.type = "boolean" -> Time(v.num)
    [] OTHER -> NaN

\* Mutant of toISOString: the milliseconds are not written.
toISOString_WholeSeconds(ms) == <<IsoPrefix, "0", "Z">>

toISOString(ms) == <<IsoPrefix, Digits[ms + 1], "Z">>

requiredFields == <<"source", "owner", "repo", "branch", "commitHash", "filePath", "fileHash">>
\* Mutant of MissingFields: the required fields are not checked.
MissingFields_Unchecked(rawMeta) == {}

MissingFields(rawMeta) ==
  {k \in 1..Len(requiredFields) : ~Truthy(Get(rawMeta, requiredFields[k]))}
FirstMissing(rawMeta) ==
  requiredFields[CHOOSE k \in MissingFields(rawMeta) : \A h \in MissingFields(rawMeta) : k <= h]

\* Lines 30-37: a truthy lastModified is parsed and rewritten by toISOString, a
\* falsy one is kept as it is.
NormalizedTimestamp(lastModified) ==
  IF Truthy(lastModified)
  THEN IF DateOf(lastModified).nan
       THEN Throw("Error", <<"Invalid timestamp: ">>)
       ELSE Ok(Str(toISOString(DateOf(lastModified).ms)))
  ELSE Ok(lastModified)

\* Lines 53-59: if (rawMeta.htmlUrl) normalized.htmlUrl = rawMeta.htmlUrl.
OptionalEntry(rawMeta, k) ==
  IF Truthy(Get(rawMeta, k)) THEN <<Entry(k, Get(rawMeta, k))>> ELSE <<>>

IsDefined(e) == e.value.type \notin {"null", "undefined"}

\* Mutant of BuildNormalized: the hashes are copied without toLowerCase.
BuildNormalized_KeepCase(rawMeta, normalizedPath, lastModified) ==
  SelectSeq(
    << Entry("branch", Get(rawMeta, "branch")),
       Entry("commitHash", Get(rawMeta, "commitHash")),
       Entry("fileHash", Get(rawMeta, "fileHash")),
       Entry("filePath", normalizedPath),
       Entry("lastModified", lastModified),
       Entry("owner", Get(rawMeta, "owner")),
       Entry("repo", Get(rawMeta, "repo")),
       Entry("source", Get(rawMeta, "source")) >>
      \o OptionalEntry(rawMeta, "htmlUrl") \o OptionalEntry(rawMeta, "repoPath"),
    IsDefined)

\* Lines 41-66: the object literal, the two optional fields, and the removal of
\* the keys whose value is null or undefined.
BuildNormalized(rawMeta, normalizedPath, lastModified) ==
  SelectSeq(
    << Entry("branch", Get(rawMeta, "branch")),
       Entry("commitHash", Str(toLowerCase(Get(rawMeta, "commitHash").text))),
       Entry("fileHash", Str(toLowerCase(Get(rawMeta, "fileHash").text))),
       Entry("filePath", normalizedPath),
       Entry("lastModified", lastModified),
       Entry("owner", Get(rawMeta, "owner")),
       Entry("repo", Get(rawMeta, "repo")),
       Entry("source", Get(rawMeta, "source")) >>
      \o OptionalEntry(rawMeta, "htmlUrl") \o OptionalEntry(rawMeta, "repoPath"),
    IsDefined)

\* normalizeMetadata of an object (the model passes no other value): the first
\* failing step throws, in the order of the code.
normalizeMetadata(rawMeta) ==
  LET commitHash == validateGitHash(Get(rawMeta, "commitHash"), "commitHash")
      fileHash == validateGitHash(Get(rawMeta, "fileHash"), "fileHash")
      normalizedPath == normalizeFilePath(Get(rawMeta, "filePath"))
      lastModified == NormalizedTimestamp(Get(rawMeta, "lastModified"))
  IN IF MissingFields(rawMeta) # {}
     THEN Throw("Error", <<"Missing required field: ", FirstMissing(rawMeta)>>)
     ELSE IF ~commitHash.ok THEN commitHash
     ELSE IF ~fileHash.ok THEN fileHash
     ELSE IF ~normalizedPath.ok THEN normalizedPath
     ELSE IF ~lastModified.ok THEN lastModified
     ELSE Ok(BuildNormalized(rawMeta, normalizedPath.value, lastModified.value))

\* Array.prototype.sort on the keys: code-unit order of the names the model uses.
SortedKeyNames ==
  << "branch", "commitHash", "extra", "fileHash", "filePath", "htmlUrl",
     "lastModified", "owner", "repo", "repoPath", "source" >>
KeyRank(k) == CHOOSE r \in 1..Len(SortedKeyNames) : SortedKeyNames[r] = k

\* sortObjectKeys: a new object with the same entries, keys in sorted order.
\* (The values of the model are not objects, so there is no recursion.)
RECURSIVE sortObjectKeys(_)
sortObjectKeys(obj) ==
  IF obj = <<>> THEN <<>>
  ELSE LET first == CHOOSE j \in 1..Len(obj) :
                      \A h \in 1..Len(obj) : KeyRank(obj[j].key) <= KeyRank(obj[h].key)
       IN <<obj[first]>> \o
          sortObjectKeys(SubSeq(obj, 1, first - 1) \o SubSeq(obj, first + 1, Len(obj)))

\* Mutant of JsonEscape: only the double quote is escaped.
RECURSIVE JsonEscape_QuotesOnly(_)
JsonEscape_QuotesOnly(t) ==
  IF t = <<>> THEN <<>>
  ELSE (IF Head(t) = "\"" THEN <<"\\", Head(t)>> ELSE <<Head(t)>>)
         \o JsonEscape_QuotesOnly(Tail(t))

\* JSON text of a string: quoted, with backslash and double quote escaped.
RECURSIVE JsonEscape(_)
JsonEscape(t) ==
  IF t = <<>> THEN <<>>
  ELSE (IF Head(t) \in {"\\", "\""} THEN <<"\\", Head(t)>> ELSE <<Head(t)>>)
         \o JsonEscape(Tail(t))

\* JSON text of a number n = num / 2.
JsonNumber(h) ==
  IF h % 2 = 0 THEN <<ToString(h \div 2)>> ELSE <<ToString(h \div 2), ".5">>

JsonValue(v) ==
  CASE v.type = "string" -> <<"\"">> \o JsonEscape(v.text) \o <<"\"">>
    [] v.type = "number" -> JsonNumber(v.num)
    [] v.type = "boolean" -> IF v.num = 1 THEN <<"true">> ELSE <<"false">>
    [] OTHER -> <<"null">>

RECURSIVE JsonMembers(_)
JsonMembers(obj) ==
  IF obj = <<>> THEN <<>>
  ELSE <<"\"", Head(obj).key, "\"", ":">> \o JsonValue(Head(obj).value)
         \o (IF Len(obj) > 1 THEN <<",">> ELSE <<>>) \o JsonMembers(Tail(obj))

\* JSON.stringify of an object: an undefined property is skipped.
IsSerialized(e) == e.value.type # "undefined"
JsonStringify(obj) == <<"{">> \o JsonMembers(SelectSeq(obj, IsSerialized)) \o <<"}">>

canonicalizeMetadata(metadata) == JsonStringify(sortObjectKeys(metadata))

(***************************************************************************)
(* The raw records the model feeds to normalizeMetadata.  Every record is  *)
(* built from a choice per field; Absent means the record has no such key. *)
(***************************************************************************)
MaxPathLen == 5

Absent == [type |-> "absent", text |-> <<>>, num |-> 0]
IsPresent(e) == e.value # Absent
Reverse(q) == [k \in 1..Len(q) |-> q[Len(q) + 1 - k]]

PathChars == {"a", "/", "\\", "."}
PathTexts == UNION {[1..n -> PathChars] : n \in 0..MaxPathLen}

IsoDate(d) == Str(<<IsoPrefix, d, "Z">>)
OffsetDate(d) == Str(<<OffsetPrefix, d, "+01:00">>)

\* The record with the given values, keys in the order an adapter writes them,
\* or in the opposite order.
MakeRaw(c) ==
  LET obj == SelectSeq(
               << Entry("source", Str(<<"github">>)),
                  Entry("owner", c.owner),
                  Entry("repo", Str(<<"r">>)),
                  Entry("branch", Str(<<"main">>)),
                  Entry("commitHash", c.commitHash),
                  Entry("filePath", c.filePath),
                  Entry("fileHash", c.fileHash),
                  Entry("lastModified", c.lastModified),
                  Entry("htmlUrl", c.htmlUrl),
                  Entry("repoPath", c.repoPath),
                  Entry("extra", c.extra) >>,
               IsPresent)
  IN IF c.reversed THEN Reverse(obj) ELSE obj

FewPaths == {Str(<<"a", "/", "b">>), Str(<<"a", "\\", "b">>), Num(5)}

\* Every path up to MaxPathLen in an otherwise plain record.
PathChoices ==
  [ owner: {Str(<<"o">>)},
    commitHash: {Str(Rep("a", HashLength))},
    filePath: {Str(t) : t \in PathTexts},
    fileHash: {Str(Rep("b", HashLength))},
    lastModified: {Absent},
    htmlUrl: {Absent},
    repoPath: {Absent},
    extra: {Absent},
    reversed: {FALSE} ]

\* The required fields: present, empty or absent, well-formed or malformed hashes.
RequiredChoices ==
  [ owner: {Str(<<"o">>), Str(<<>>), Absent},
    commitHash: { Str(Rep("a", HashLength)), Str(Rep("A", HashLength)),
                  Str(Rep("a", HashLength - 1)), Str(Rep("a", HashLength + 1)),
                  Str(Rep("g", HashLength)), Num(5), Absent },
    filePath: FewPaths,
    fileHash: { Str(Rep("b", HashLength)), Str(Rep("B", HashLength)),
                Str(Rep("c", HashLength)), Str(Rep("G", HashLength)) },
    lastModified: {Absent, IsoDate("1")},
    htmlUrl: {Absent},
    repoPath: {Absent},
    extra: {Absent},
    reversed: BOOLEAN ]

\* The optional fields: absent, undefined, null, empty, and values of every kind.
OptionalChoices ==
  [ owner: {Str(<<"o">>)},
    commitHash: {Str(Rep("a", HashLength))},
    filePath: {Str(<<"a", "/", "b">>), Str(<<"a", "\\", "b">>)},
    fileHash: {Str(Rep("b", HashLength)), Str(Rep("B", HashLength))},
    lastModified: { Absent, UndefinedV, NullV, Str(<<>>), Num(0), Num(1), Num2(3), Num(2),
                    IsoDate("1"), OffsetDate("1"), IsoDate("2"), Str(<<"yesterday">>) },
    htmlUrl: {Absent, NullV, Str(<<>>), Str(<<"u">>)},
    repoPath: {Absent, Str(<<>>), Str(<<"p">>)},
    extra: {Absent, Str(<<"x">>)},
    reversed: BOOLEAN ]

RawRecords == {MakeRaw(c) : c \in PathChoices \cup RequiredChoices \cup OptionalChoices}

InitNorm ==
  /\ meta \in RawRecords
  /\ options = <<>>
  /\ idPc = "call"
  /\ normalized = <<>>
  /\ renormalized = <<>>
  /\ generated = <<>>
  /\ BatchIdle
  /\ DiffIdle
  /\ UtilIdle
  /\ V1Idle

Normalize ==
  /\ idPc = "call"
  /\ idPc' = "normalized"
  /\ normalized' = normalizeMetadata(meta)
  /\ UNCHANGED <<meta, options, renormalized, generated, batchVars, diffVars, utilVars, v1Vars>>

\* The returned record is normalized again (generateIdentifier does so with the
\* metadata a caller has already normalized).
Renormalize ==
  /\ idPc = "normalized"
  /\ normalized.ok
  /\ idPc' = "renormalized"
  /\ renormalized' = normalizeMetadata(normalized.value)
  /\ UNCHANGED <<meta, options, normalized, generated, batchVars, diffVars, utilVars, v1Vars>>

NextNorm == Normalize \/ Renormalize
SpecNorm == InitNorm /\ [][NextNorm]_vars

(***************************************************************************)
(* generateIdentifier (identifier.mjs).                                    *)
(*                                                                         *)
(* The digest crypto computes is kept symbolic: the string                 *)
(* createHash(algorithm).update(canonical).digest(encoding) is the record  *)
(* [src, algorithm, encoding, len] with len its full length, and a prefix  *)
(* of it is the same record with a smaller len.  The empty string is one   *)
(* value whatever it was cut from.  Digests of different canonical strings *)
(* are different strings (the digest is injective); their proper prefixes  *)
(* are kept apart as well, and no property below relies on that.           *)
(***************************************************************************)
MaxTruncate == 3
ShortLength == 8

DigestLength(algorithm, encoding) ==
  CASE algorithm = "sha256" /\ encoding = "hex" -> 64
    [] algorithm = "sha1" /\ encoding = "hex" -> 40
    [] algorithm = "sha256" /\ encoding = "base64" -> 44
    [] algorithm = "sha1" /\ encoding = "base64" -> 28

Digest(algorithm, encoding, canonical) ==
  [ src |-> canonical, algorithm |-> algorithm, encoding |-> encoding,
    len |-> DigestLength(algorithm, encoding) ]
EmptyString == [src |-> <<>>, algorithm |-> "", encoding |-> "", len |-> 0]

\* The end index String.prototype.substring(0, end) uses for end = h / 2: the
\* number is truncated to an integer and clamped to 0..length.
SubstringEnd(h, len) ==
  IF TimeClip(h) < 0 THEN 0 ELSE IF TimeClip(h) > len THEN len ELSE TimeClip(h)

\* str.substring(0, end) of a digest string.
Substring(str, h) ==
  IF SubstringEnd(h, str.len) = 0 THEN EmptyString
  ELSE [str EXCEPT !.len = SubstringEnd(h, str.len)]

\* Mutant of Short: the whole digest is returned as short.
Short_WholeDigest(hash) == hash

\* hash.substring(0, 8)
Short(hash) == Substring(hash, 2 * ShortLength)

\* `${algorithm}:${hash}`
Identifier(algorithm, hash) == [algorithm |-> algorithm, hash |-> hash]

\* A destructured option: the default replaces undefined.
OptionOr(v, default) == IF v = Undefined THEN default ELSE v

\* Mutant of generateIdentifier: the metadata is normalized before the options
\* are validated.
generateIdentifier_NormalizesFirst(m, o) ==
  LET algorithm == OptionOr(o.algorithm, "sha256")
      encoding == OptionOr(o.encoding, "hex")
      truncate == IF o.truncate = UndefinedV THEN Bool(FALSE) ELSE o.truncate
      normalizing == normalizeMetadata(m)
  IN IF ~normalizing.ok
     THEN normalizing
     ELSE IF algorithm \notin {"sha256", "sha1"}
     THEN Throw("TypeError", <<"Invalid algorithm: ", algorithm>>)
     ELSE IF encoding \notin {"hex", "base64"}
     THEN Throw("TypeError", <<"Invalid encoding: ", encoding>>)
     ELSE LET hash == Digest(algorithm, encoding, canonicalizeMetadata(normalizing.value))
          IN Ok([ identifier |->
                    IF Truthy(truncate) /\ truncate.type = "number"
                    THEN Identifier(algorithm, Substring(hash, truncate.num))
                    ELSE Identifier(algorithm, hash),
                  short |-> Short(hash), algorithm |-> algorithm,
                  metadata |-> IF o.includeMetadata THEN normalizing.value ELSE <<>> ])

generateIdentifier(m, o) ==
  LET algorithm == OptionOr(o.algorithm, "sha256")
      encoding == OptionOr(o.encoding, "hex")
      truncate == IF o.truncate = UndefinedV THEN Bool(FALSE) ELSE o.truncate
      includeMetadata == o.includeMetadata   \* FALSE also stands for "not given"
      normalizing == normalizeMetadata(m)
  IN IF algorithm \notin {"sha256", "sha1"}
     THEN Throw("TypeError", <<"Invalid algorithm: ", algorithm>>)
     ELSE IF encoding \notin {"hex", "base64"}
     THEN Throw("TypeError", <<"Invalid encoding: ", encoding>>)
     ELSE IF ~normalizing.ok
     THEN normalizing
     ELSE LET norm == normalizing.value
              hash == Digest(algorithm, encoding, canonicalizeMetadata(norm))
              short == Short(hash)
              identifier ==
                IF Truthy(truncate) /\ truncate.type = "number"
                THEN Identifier(algorithm, Substring(hash, truncate.num))
                ELSE Identifier(algorithm, hash)
          IN Ok([ identifier |-> identifier, short |-> short, algorithm |-> algorithm,
                  metadata |-> IF includeMetadata THEN norm ELSE <<>> ])

GenChoices ==
  [ owner: {Str(<<"o">>)},
    commitHash: {Str(Rep("a", HashLength))},
    filePath: {Str(<<"a", "/", "b">>), Str(<<"a", "\\", "b">>)},
    fileHash: {Str(Rep("b", HashLength)), Str(Rep("B", HashLength)), Str(Rep("c", HashLength))},
    lastModified: {Absent, Num(1), Num2(3), IsoDate("2")},
    htmlUrl: {Absent},
    repoPath: {Absent},
    extra: {Absent},
    reversed: BOOLEAN ]
\* Records normalizeMetadata rejects: a malformed hash, a missing owner, a
\* filePath that is not a string.
InvalidGenChoices ==
  [ owner: {Str(<<"o">>), Absent},
    commitHash: {Str(Rep("a", HashLength))},
    filePath: {Str(<<"a", "/", "b">>), Num(5)},
    fileHash: {Str(Rep("b", HashLength)), Str(Rep("G", HashLength))},
    lastModified: {Absent},
    htmlUrl: {Absent},
    repoPath: {Absent},
    extra: {Absent},
    reversed: {FALSE} ]
GenRecords == {MakeRaw(c) : c \in GenChoices \cup InvalidGenChoices}

TruncateValues ==
  {UndefinedV, Bool(FALSE), Bool(TRUE), Str(<<"8">>)}
    \cup {Num2(h) : h \in -2..(2 * MaxTruncate)}
    \cup {Num(ShortLength), Num(ShortLength + 1)}
    \cup {Num(DigestLength("sha256", "hex")), Num(DigestLength("sha256", "hex") + 1)}

GenOptions ==
  [ algorithm: {Undefined, "sha256", "sha1", "md5"},
    encoding: {Undefined, "hex", "base64", "utf8"},
    truncate: TruncateValues,
    includeMetadata: BOOLEAN ]

InitGen ==
  /\ meta \in GenRecords
  /\ options \in GenOptions
  /\ idPc = "call"
  /\ normalized = <<>>
  /\ renormalized = <<>>
  /\ generated = <<>>
  /\ BatchIdle
  /\ DiffIdle
  /\ UtilIdle
  /\ V1Idle

Generate ==
  /\ idPc = "call"
  /\ idPc' = "generated"
  /\ generated' = generateIdentifier(meta, options)
  /\ UNCHANGED <<meta, options, normalized, renormalized, batchVars, diffVars, utilVars, v1Vars>>

NextGen == Generate
SpecGen == InitGen /\ [][NextGen]_vars

(***************************************************************************)
(* Claims about normalizeMetadata, canonicalizeMetadata and                *)
(* generateIdentifier.                                                     *)
(***************************************************************************)

Generated == idPc = "generated"
Normalized == idPc \in {"normalized", "renormalized"}
Renormalized == idPc = "renormalized"

SlashesToBackslashes(t) == [k \in 1..Len(t) |-> IF t[k] = "/" THEN "\\" ELSE t[k]]
With(obj, k, v) == [j \in 1..Len(obj) |-> IF obj[j].key = k THEN Entry(k, v) ELSE obj[j]]

\* The records that differ from m only in key insertion order or in the
\* separator convention of filePath.
SeparatorVariants(m) ==
  LET path == Get(m, "filePath").text
      paths == {Str(path), Str(SlashesToBackslashes(path)), Str(BackslashesToSlashes(path))}
  IN {With(m, "filePath", q) : q \in paths} \cup {Reverse(With(m, "filePath", q)) : q \in paths}

\* C12: records that differ only in key insertion order or in the path-separator
\* convention of filePath have the same canonical string, and generateIdentifier
\* returns the same identifier and short for them under every options.
C12_SameRecordSameIdentifier ==
  (Generated /\ generated.ok) =>
    \A b \in SeparatorVariants(meta) :
      LET other == generateIdentifier(b, options)
      IN /\ normalizeMetadata(b).ok
         /\ canonicalizeMetadata(normalizeMetadata(b).value)
              = canonicalizeMetadata(normalizeMetadata(meta).value)
         /\ other.ok
         /\ other.value.identifier = generated.value.identifier
         /\ other.value.short = generated.value.short

\* C12 witness: an identifier generated for a record written with backslashes and
\* with its keys in the opposite order.
C12_Witness ==
  /\ Generated
  /\ generated.ok
  /\ meta[1].key # "source"
  /\ \E k \in 1..Len(Get(meta, "filePath").text) : Get(meta, "filePath").text[k] = "\\"

NormalizedPath == Get(normalized.value, "filePath").text

\* C13: for every raw record normalizeMetadata accepts, the returned filePath has
\* no backslash, does not start with './', does not end with '/', and has no two
\* consecutive slashes.
C13_NormalizedPathIsPosix ==
  (Normalized /\ normalized.ok) =>
    /\ \A k \in 1..Len(NormalizedPath) : NormalizedPath[k] # "\\"
    /\ ~(Len(NormalizedPath) >= 2 /\ NormalizedPath[1] = "." /\ NormalizedPath[2] = "/")
    /\ ~(NormalizedPath # <<>> /\ NormalizedPath[Len(NormalizedPath)] = "/")
    /\ \A k \in 1..(Len(NormalizedPath) - 1) :
         ~(NormalizedPath[k] = "/" /\ NormalizedPath[k + 1] = "/")

\* C14: normalizeMetadata is idempotent: normalizing a record it returned succeeds
\* and returns the same record.
C14_NormalizeIsIdempotent ==
  Renormalized => (renormalized.ok /\ renormalized.value = normalized.value)

OptionalFields == {"lastModified", "htmlUrl", "repoPath"}
EmptyValues == {NullV, UndefinedV, Str(<<>>)}
Without(obj, k) ==
  IF HasKey(obj, k)
  THEN LET j == CHOOSE h \in 1..Len(obj) : obj[h].key = k
       IN SubSeq(obj, 1, j - 1) \o SubSeq(obj, j + 1, Len(obj))
  ELSE obj

\* C15: the returned record contains no optional field (lastModified, htmlUrl,
\* repoPath) whose value is null, undefined or empty, and a raw record with an
\* empty optional field normalizes to the same record as one without the field.
C15_EmptyOptionalFieldsAreDropped ==
  (Normalized /\ normalized.ok) =>
    /\ \A k \in OptionalFields :
         HasKey(normalized.value, k) => Get(normalized.value, k) \notin EmptyValues
    /\ \A k \in OptionalFields :
         (HasKey(meta, k) /\ Get(meta, k) \in EmptyValues)
           => normalizeMetadata(Without(meta, k)) = normalized

AllRequiredPresent == \A k \in 1..Len(requiredFields) : Truthy(Get(meta, requiredFields[k]))
IsHex40(v) ==
  /\ v.type = "string"
  /\ Len(v.text) = HashLength
  /\ \A k \in 1..Len(v.text) : v.text[k] \in DecDigits \cup HexLower \cup HexUpper
HashesValid == IsHex40(Get(meta, "commitHash")) /\ IsHex40(Get(meta, "fileHash"))
ThrewInvalidHash == ~normalized.ok /\ normalized.error = "InvalidHashError"
HashesLowerCased ==
  /\ normalized.ok
  /\ Get(normalized.value, "commitHash") = Str(toLowerCase(Get(meta, "commitHash").text))
  /\ Get(normalized.value, "fileHash") = Str(toLowerCase(Get(meta, "fileHash").text))

\* The records that differ from m only in the letter case of the hashes.
CaseVariants(m) ==
  { With(With(m, "commitHash", c), "fileHash", f) :
      c \in {Get(m, "commitHash"), Str(toLowerCase(Get(m, "commitHash").text))},
      f \in {Get(m, "fileHash"), Str(toLowerCase(Get(m, "fileHash").text))} }

SomeOptions ==
  { [algorithm |-> Undefined, encoding |-> Undefined, truncate |-> UndefinedV,
     includeMetadata |-> FALSE],
    [algorithm |-> "sha1", encoding |-> "base64", truncate |-> Num(2),
     includeMetadata |-> FALSE] }

\* Records whose hashes differ only in letter case have the same normalized hashes
\* and the same identifier.
HashCaseIsIrrelevant ==
  normalized.ok =>
    \A b \in CaseVariants(meta) :
      /\ normalizeMetadata(b).ok
      /\ Get(normalizeMetadata(b).value, "commitHash") = Get(normalized.value, "commitHash")
      /\ Get(normalizeMetadata(b).value, "fileHash") = Get(normalized.value, "fileHash")
      /\ \A o \in SomeOptions :
           generateIdentifier(b, o).value.identifier
             = generateIdentifier(meta, o).value.identifier

\* C16 as claimed: for a raw record with all required fields present,
\* normalizeMetadata either throws InvalidHashError, exactly when commitHash or
\* fileHash is not 40-character hex, or returns a record whose hashes are the
\* lower-cased inputs; hashes differing only in letter case give the same
\* normalized hashes and identifier.
C16_InvalidHashErrorOrLowerCased ==
  (Normalized /\ AllRequiredPresent) =>
    /\ ThrewInvalidHash <=> ~HashesValid
    /\ ThrewInvalidHash \/ HashesLowerCased
    /\ HashCaseIsIrrelevant

\* C16 as amended: for a raw record with all required fields present,
\* normalizeMetadata throws InvalidHashError exactly when commitHash or fileHash is
\* not 40-character hex; otherwise it throws TypeError when filePath is not a
\* string, else Error when lastModified is truthy and not a parsable date, else it
\* returns a record whose hashes are the lower-cased inputs; hashes differing only
\* in letter case give the same normalized hashes and identifier.
C16_ValidationErrorOrLowerCased ==
  (Normalized /\ AllRequiredPresent) =>
    /\ ThrewInvalidHash <=> ~HashesValid
    /\ HashesValid =>
         IF Get(meta, "filePath").type # "string"
         THEN ~normalized.ok /\ normalized.error = "TypeError"
         ELSE IF Truthy(Get(meta, "lastModified")) /\ DateOf(Get(meta, "lastModified")).nan
         THEN ~normalized.ok /\ normalized.error = "Error"
         ELSE HashesLowerCased
    /\ HashCaseIsIrrelevant

\* C16 witness: a record with upper-case hashes was accepted.
C16_Witness ==
  /\ Normalized
  /\ normalized.ok
  /\ Get(meta, "commitHash") # Get(normalized.value, "commitHash")
  /\ Get(meta, "fileHash") # Get(normalized.value, "fileHash")

RequiredFieldNames == {requiredFields[k] : k \in 1..Len(requiredFields)}

\* C17: the key set of every returned record contains the seven required fields
\* and is a subset of those plus lastModified, htmlUrl and repoPath; the other raw
\* keys are dropped and do not influence the identifier; a raw record missing a
\* required field is rejected with an error.
C17_KeySetIsFixed ==
  Normalized =>
    /\ normalized.ok =>
         /\ RequiredFieldNames \subseteq Keys(normalized.value)
         /\ Keys(normalized.value) \subseteq RequiredFieldNames \cup OptionalFields
         /\ normalizeMetadata(Without(meta, "extra")) = normalized
         /\ \A o \in SomeOptions :
              generateIdentifier(Without(meta, "extra"), o) = generateIdentifier(meta, o)
    /\ (\E k \in RequiredFieldNames : ~HasKey(meta, k)) =>
         (~normalized.ok /\ normalized.error = "Error")

\* C17 witness: a record with an extra key and with optional fields was accepted.
C17_Witness ==
  /\ Normalized
  /\ normalized.ok
  /\ HasKey(meta, "extra")
  /\ HasKey(normalized.value, "htmlUrl")
  /\ HasKey(normalized.value, "lastModified")

\* The untruncated digest of the record under the options in force.
FullDigest ==
  Digest(OptionOr(options.algorithm, "sha256"), OptionOr(options.encoding, "hex"),
         canonicalizeMetadata(normalizeMetadata(meta).value))
\* The first n characters of the full digest (all of it when it is shorter).
FirstChars(n) == [FullDigest EXCEPT !.len = IF n > FullDigest.len THEN FullDigest.len ELSE n]
IsPositiveInteger(v) == v.type = "number" /\ v.num > 0 /\ v.num % 2 = 0
IsPrefix(p, str) ==
  \/ p = EmptyString
  \/ /\ p.src = str.src
     /\ p.algorithm = str.algorithm
     /\ p.encoding = str.encoding
     /\ p.len <= str.len

\* C18: the digest part of identifier is the first `truncate` characters of the
\* full encoded digest when truncate is a positive integer, and the full digest
\* for every other value (false, 0, negative or non-integer numbers).
C18_TruncatesOnlyForPositiveInteger ==
  (Generated /\ generated.ok) =>
    generated.value.identifier.hash =
      IF IsPositiveInteger(options.truncate)
      THEN FirstChars(options.truncate.num \div 2)
      ELSE FullDigest

\* C19: for every truncate value, short is the first 8 characters of the full,
\* untruncated digest, and short and the digest part of identifier are both
\* prefixes of the full digest.
C19_ShortIsFirstEightOfFullDigest ==
  (Generated /\ generated.ok) =>
    /\ generated.value.short = FirstChars(8)
    /\ IsPrefix(generated.value.short, FullDigest)
    /\ IsPrefix(generated.value.identifier.hash, FullDigest)

\* C19 witness: an identifier truncated to fewer characters than short has.
C19_Witness ==
  /\ Generated
  /\ generated.ok
  /\ generated.value.identifier.hash # EmptyString
  /\ generated.value.identifier.hash.len < generated.value.short.len

\* The instant a lastModified value denotes, in half milliseconds.
Instant(v) == IF v.type = "number" THEN v.num ELSE 2 * DateParse(v.text).ms
OtherFileHashes ==
  {Str(Rep("b", HashLength)), Str(Rep("B", HashLength)), Str(Rep("c", HashLength))}
    \ {Get(meta, "fileHash")}
OtherInstants ==
  IF HasKey(meta, "lastModified")
  THEN {v \in {Num(1), Num2(3), IsoDate("2")} : Instant(v) # Instant(Get(meta, "lastModified"))}
  ELSE {}
DiffersFromGenerated(b) ==
  /\ generateIdentifier(b, options).ok
  /\ canonicalizeMetadata(normalizeMetadata(b).value)
       # canonicalizeMetadata(normalizeMetadata(meta).value)
HasFullDigest == generated.value.identifier.hash = FullDigest

\* C20 as claimed: two valid records identical except for fileHash, or identical
\* except for lastModified (denoting different instants), have different canonical
\* strings and different identifiers under the same options.
C20_DifferentRecordDifferentIdentifier ==
  (Generated /\ generated.ok) =>
    \A b \in {With(meta, "fileHash", f) : f \in OtherFileHashes}
               \cup {With(meta, "lastModified", v) : v \in OtherInstants} :
      /\ DiffersFromGenerated(b)
      /\ generateIdentifier(b, options).value.identifier # generated.value.identifier

\* C20 as amended: two valid records identical except for fileHash values that
\* differ in more than letter case, or identical except for lastModified values
\* that denote different whole milliseconds, have different canonical strings, and
\* different identifiers whenever the identifier carries the full digest.
C20_DifferentContentDifferentFullIdentifier ==
  (Generated /\ generated.ok) =>
    \A b \in {With(meta, "fileHash", f) :
                f \in {g \in OtherFileHashes :
                         toLowerCase(g.text) # toLowerCase(Get(meta, "fileHash").text)}}
               \cup {With(meta, "lastModified", v) :
                       v \in {w \in OtherInstants :
                                Instant(w) \div 2 # Instant(Get(meta, "lastModified")) \div 2}} :
      /\ DiffersFromGenerated(b)
      /\ HasFullDigest =>
           generateIdentifier(b, options).value.identifier # generated.value.identifier

\* C20 witness: a full identifier generated for a record with a lastModified.
C20_Witness ==
  /\ Generated
  /\ generated.ok
  /\ HasFullDigest
  /\ HasKey(meta, "lastModified")

\* C21: with an algorithm outside {sha256, sha1} or an encoding outside
\* {hex, base64}, generateIdentifier throws a TypeError naming the bad option,
\* also when the metadata is itself invalid, and returns no result.
C21_InvalidOptionThrowsFirst ==
  (/\ Generated
   /\ \/ OptionOr(options.algorithm, "sha256") \notin {"sha256", "sha1"}
      \/ OptionOr(options.encoding, "hex") \notin {"hex", "base64"})
    => /\ ~generated.ok
       /\ generated.error = "TypeError"
       /\ generated.message[1] \in {"Invalid algorithm: ", "Invalid encoding: "}
       /\ generated.value = <<>>

\* C21 witness: an invalid encoding together with a record normalizeMetadata
\* rejects.
C21_Witness ==
  /\ Generated
  /\ options.encoding = "utf8"
  /\ options.algorithm = "sha1"
  /\ ~normalizeMetadata(meta).ok
  /\ ~generated.ok

(***************************************************************************)
(* The comparison helpers of change-detection.mjs: hasFileChanged,         *)
(* compareIdentifier, saveManifest and loadManifest.                       *)
(***************************************************************************)

\* An object argument; its properties are the entries.
Obj(entries) == [type |-> "object", entries |-> entries]
\* v[k]: a property of an object, undefined on every other truthy value.
Prop(v, k) == IF v.type = "object" THEN Get(v.entries, k) ELSE UndefinedV

\* Mutant of hasFileChanged: the commit hashes are compared before the file hashes.
hasFileChanged_CommitFirst(meta1, meta2) ==
  IF ~Truthy(meta1) \/ ~Truthy(meta2) THEN TRUE
  ELSE IF Truthy(Prop(meta1, "commitHash")) /\ Truthy(Prop(meta2, "commitHash"))
  THEN Prop(meta1, "commitHash") # Prop(meta2, "commitHash")
  ELSE IF Truthy(Prop(meta1, "fileHash")) /\ Truthy(Prop(meta2, "fileHash"))
  THEN Prop(meta1, "fileHash") # Prop(meta2, "fileHash")
  ELSE TRUE

hasFileChanged(meta1, meta2) ==
  IF ~Truthy(meta1) \/ ~Truthy(meta2) THEN TRUE
  ELSE IF Truthy(Prop(meta1, "fileHash")) /\ Truthy(Prop(meta2, "fileHash"))
  THEN Prop(meta1, "fileHash") # Prop(meta2, "fileHash")
  ELSE IF Truthy(Prop(meta1, "commitHash")) /\ Truthy(Prop(meta2, "commitHash"))
  THEN Prop(meta1, "commitHash") # Prop(meta2, "commitHash")
  ELSE TRUE

\* Mutant of compareIdentifier: the falsy check is missing.
compareIdentifier_EqualityOnly(cur, stored) == cur = stored

compareIdentifier(cur, stored) ==
  IF ~Truthy(cur) \/ ~Truthy(stored) THEN FALSE ELSE cur = stored

(***************************************************************************)
(* A manifest is an object whose keys (paths) and values (identifiers) are *)
(* strings; here a key is the sequence of its characters.  JSON.stringify  *)
(* writes the members in insertion order, with a newline and two spaces    *)
(* before each member and a space after the colon when indented.           *)
(* JsonParse reads the JSON texts whose members are strings.               *)
(***************************************************************************)
Quoted(t) == <<"\"">> \o JsonEscape(t) \o <<"\"">>

RECURSIVE StringifyMembers(_, _)
StringifyMembers(obj, pretty) ==
  IF obj = <<>> THEN <<>>
  ELSE (IF pretty THEN <<"\n", " ", " ">> ELSE <<>>)
         \o Quoted(Head(obj).key) \o <<":">> \o (IF pretty THEN <<" ">> ELSE <<>>)
         \o Quoted(Head(obj).value.text)
         \o (IF Len(obj) > 1 THEN <<",">> ELSE <<>>)
         \o StringifyMembers(Tail(obj), pretty)

\* JSON.stringify(manifest, null, 2) when pretty, JSON.stringify(manifest) otherwise.
StringifyManifest(obj, pretty) ==
  IF obj = <<>> THEN <<"{", "}">>
  ELSE <<"{">> \o StringifyMembers(obj, pretty)
         \o (IF pretty THEN <<"\n">> ELSE <<>>) \o <<"}">>

saveManifest(m, pretty) ==
  IF m.type # "object"
  THEN Throw("TypeError", <<"manifest must be an object">>)
  ELSE Ok(StringifyManifest(m.entries, pretty))

NoString == [ok |-> FALSE, text |-> <<>>, next |-> 0]
SyntaxError == Throw("Error", <<"Failed to parse manifest JSON: ">>)

RECURSIVE SkipWhitespace(_, _)
SkipWhitespace(t, p) ==
  IF p <= Len(t) /\ t[p] \in {" ", "\n"} THEN SkipWhitespace(t, p + 1) ELSE p

\* The characters of a string literal from position p, just after its opening
\* quote, up to its closing quote.
RECURSIVE ReadString(_, _, _)
ReadString(t, p, acc) ==
  IF p > Len(t) \/ t[p] = "\n" THEN NoString
  ELSE IF t[p] = "\"" THEN [ok |-> TRUE, text |-> acc, next |-> p + 1]
  ELSE IF t[p] = "\\"
  THEN IF p + 1 <= Len(t) /\ t[p + 1] \in {"\"", "\\"}
       THEN ReadString(t, p + 2, Append(acc, t[p + 1]))
       ELSE NoString
  ELSE ReadString(t, p + 1, Append(acc, t[p]))

ParseString(t, p) ==
  IF p <= Len(t) /\ t[p] = "\"" THEN ReadString(t, p + 1, <<>>) ELSE NoString

\* obj[k] = v: a new key is appended, an existing one keeps its place.
Put(obj, k, v) ==
  IF HasKey(obj, k)
  THEN [j \in 1..Len(obj) |-> IF obj[j].key = k THEN Entry(k, v) ELSE obj[j]]
  ELSE Append(obj, Entry(k, v))

\* The members from position p on, up to the closing brace and the end of input.
RECURSIVE ParseMembers(_, _, _)
ParseMembers(t, p, acc) ==
  LET key == ParseString(t, p)
      colon == SkipWhitespace(t, key.next)
      value == ParseString(t, SkipWhitespace(t, colon + 1))
      after == SkipWhitespace(t, value.next)
      obj == Put(acc, key.text, Str(value.text))
  IN IF ~key.ok \/ colon > Len(t) THEN SyntaxError
     ELSE IF t[colon] # ":" \/ ~value.ok THEN SyntaxError
     ELSE IF after > Len(t) THEN SyntaxError
     ELSE IF t[after] = "}"
     THEN IF SkipWhitespace(t, after + 1) = Len(t) + 1 THEN Ok(obj) ELSE SyntaxError
     ELSE IF t[after] = ","
     THEN ParseMembers(t, SkipWhitespace(t, after + 1), obj)
     ELSE SyntaxError

JsonParse(t) ==
  LET open == SkipWhitespace(t, 1)
      first == SkipWhitespace(t, open + 1)
  IN IF open > Len(t) THEN SyntaxError
     ELSE IF t[open] # "{" THEN SyntaxError
     ELSE IF first <= Len(t) /\ t[first] = "}"
     THEN IF SkipWhitespace(t, first + 1) = Len(t) + 1 THEN Ok(<<>>) ELSE SyntaxError
     ELSE ParseMembers(t, first, <<>>)

\* loadManifest: JSON.parse, a syntax error rethrown as Error.
loadManifest(json) == JsonParse(json)

MaxTextLen == 2

HashProps == {Absent, NullV, Str(<<>>), Str(<<"h1">>), Str(<<"h2">>)}
\* The metadata arguments of hasFileChanged: missing, or an object with or
\* without fileHash and commitHash.
MetaArgs ==
  {NullV, UndefinedV}
    \cup { Obj(SelectSeq(<<Entry("fileHash", f), Entry("commitHash", c)>>, IsPresent)) :
             f \in HashProps, c \in HashProps }
IdArgs == {UndefinedV, NullV, Str(<<>>), Str(<<"id1">>), Str(<<"id2">>)}

TextChars == {"a", "\\", "\""}
Texts(n) == UNION {[1..k -> TextChars] : k \in 0..n}
\* The manifests of up to two paths, in every insertion order.
ValidManifests ==
  {<<>>}
    \cup {<<Entry(k, Str(v))>> : k \in Texts(MaxTextLen), v \in Texts(1)}
    \cup { <<Entry(k[1], Str(v[1])), Entry(k[2], Str(v[2]))>> :
             k \in {q \in Texts(MaxTextLen) \X Texts(MaxTextLen) : q[1] # q[2]},
             v \in Texts(1) \X Texts(1) }

InitUtil ==
  /\ \/ callee = "hasFileChanged" /\ args \in MetaArgs \X MetaArgs
     \/ callee = "compareIdentifier" /\ args \in IdArgs \X IdArgs
     \/ callee = "saveManifest" /\ args \in ({NullV} \cup {Obj(m) : m \in ValidManifests}) \X BOOLEAN
  /\ callPc = "call"
  /\ returned = <<>>
  /\ loaded = <<>>
  /\ BatchIdle
  /\ DiffIdle
  /\ IdIdle
  /\ V1Idle

HasFileChanged ==
  /\ callee = "hasFileChanged"
  /\ callPc = "call"
  /\ callPc' = "returned"
  /\ returned' = hasFileChanged(args[1], args[2])
  /\ UNCHANGED <<callee, args, loaded, batchVars, diffVars, idVars, v1Vars>>

CompareIdentifier ==
  /\ callee = "compareIdentifier"
  /\ callPc = "call"
  /\ callPc' = "returned"
  /\ returned' = compareIdentifier(args[1], args[2])
  /\ UNCHANGED <<callee, args, loaded, batchVars, diffVars, idVars, v1Vars>>

SaveManifest ==
  /\ callee = "saveManifest"
  /\ callPc = "call"
  /\ callPc' = "returned"
  /\ returned' = saveManifest(args[1], args[2])
  /\ UNCHANGED <<callee, args, loaded, batchVars, diffVars, idVars, v1Vars>>

\* The saved string is read back.
LoadManifest ==
  /\ callee = "saveManifest"
  /\ callPc = "returned"
  /\ returned.ok
  /\ callPc' = "loaded"
  /\ loaded' = loadManifest(returned.value)
  /\ UNCHANGED <<callee, args, returned, batchVars, diffVars, idVars, v1Vars>>

NextUtil == HasFileChanged \/ CompareIdentifier \/ SaveManifest \/ LoadManifest
SpecUtil == InitUtil /\ [][NextUtil]_vars

(***************************************************************************)
(* Claims about the comparison helpers, checked under SpecUtil.            *)
(***************************************************************************)

Returned(f) == callee = f /\ callPc \in {"returned", "loaded"}
IsMissing(v) == v \in {NullV, UndefinedV}
\* The object has the property with a value that is not null, undefined or ''.
Has(v, k) == HasKey(v.entries, k) /\ Get(v.entries, k) \notin EmptyValues

\* C22: hasFileChanged(m1, m2) returns true when either argument is missing;
\* otherwise (m1.fileHash != m2.fileHash) if both have fileHash; otherwise
\* (m1.commitHash != m2.commitHash) if both have commitHash; otherwise true.
C22_FileHashThenCommitHash ==
  Returned("hasFileChanged") =>
    returned =
      IF IsMissing(args[1]) \/ IsMissing(args[2]) THEN TRUE
      ELSE IF Has(args[1], "fileHash") /\ Has(args[2], "fileHash")
      THEN Get(args[1].entries, "fileHash") # Get(args[2].entries, "fileHash")
      ELSE IF Has(args[1], "commitHash") /\ Has(args[2], "commitHash")
      THEN Get(args[1].entries, "commitHash") # Get(args[2].entries, "commitHash")
      ELSE TRUE

\* C22 witness: equal file hashes and different commit hashes were compared.
C22_Witness ==
  /\ Returned("hasFileChanged")
  /\ ~IsMissing(args[1]) /\ ~IsMissing(args[2])
  /\ Has(args[1], "fileHash")
  /\ Get(args[1].entries, "fileHash") = Get(args[2].entries, "fileHash")
  /\ Has(args[1], "commitHash") /\ Has(args[2], "commitHash")
  /\ Get(args[1].entries, "commitHash") # Get(args[2].entries, "commitHash")
  /\ returned = FALSE

\* C23: compareIdentifier(current, stored) returns true only when both arguments
\* are non-empty, equal strings, and false whenever either is missing, null or
\* empty, even if both are equal.
C23_TrueOnlyForEqualNonEmptyStrings ==
  Returned("compareIdentifier") =>
    /\ returned <=> /\ args[1].type = "string" /\ args[1].text # <<>>
                    /\ args[2].type = "string" /\ args[2].text # <<>>
                    /\ args[1].text = args[2].text
    /\ (args[1] \in EmptyValues \/ args[2] \in EmptyValues) => ~returned

\* C23 witness: two equal falsy arguments were compared.
C23_Witness ==
  /\ Returned("compareIdentifier")
  /\ args[1] = args[2]
  /\ args[1] \in EmptyValues
  /\ ~returned

\* C24: for every valid manifest m, loadManifest(saveManifest(m, pretty)) equals
\* m, for pretty true and false.
C24_ManifestRoundTrip ==
  (callee = "saveManifest" /\ args[1].type = "object") =>
    /\ callPc \in {"returned", "loaded"} => returned.ok
    /\ callPc = "loaded" => (loaded.ok /\ loaded.value = args[1].entries)

\* C24 witness: a manifest of two paths containing a backslash and a double quote
\* was saved indented and read back.
C24_Witness ==
  /\ callee = "saveManifest"
  /\ callPc = "loaded"
  /\ args[2]
  /\ Len(args[1].entries) = 2
  /\ args[1].entries[1].key = <<"\\", "\"">>
  /\ loaded.ok

(***************************************************************************)
(* The v1 module (GitFileId and GitBatchProcessor).  The backend instance  *)
(* is outside the module: each call to it is logged and settles later,     *)
(* fulfilled or rejected.  A call of an async method is one record of      *)
(* calls; the part of the method up to its first await runs in Call, the   *)
(* part after the backend has settled in BackendSettles.                   *)
(***************************************************************************)
MaxCalls == 2
MaxFiles == 2

\* The GitFileId operations and the backend method each one awaits.
GitOps ==
  { "generateGitHubUrl", "getFileHash", "getFileStatus", "getHeadRef", "listRefs",
    "getBlob", "getTree", "getCommit", "getTag" }
BackendMethod(op) ==
  CASE op = "findRepository" -> "find_repository"
    [] op = "initialize" -> "find_repository"
    [] op = "generateGitHubUrl" -> "generate_github_url"
    [] op = "generateUrls" -> "generate_github_url"
    [] op = "getFileHash" -> "get_file_hash"
    [] op = "getFileStatus" -> "get_file_status"
    [] op = "getStatuses" -> "get_file_status"
    [] op = "getHeadRef" -> "get_head_ref"
    [] op = "listRefs" -> "list_refs"
    [] op = "getBlob" -> "get_blob"
    [] op = "getTree" -> "get_tree"
    [] op = "getCommit" -> "get_commit"
    [] op = "getTag" -> "get_tag"
BatchOps == {"generateUrls", "getStatuses"}
\* The message of the Error an operation wraps a backend failure in.
FailedMessage(op) ==
  CASE op \in {"findRepository", "initialize"} -> "Failed to find repository: "
    [] op \in {"generateGitHubUrl", "generateUrls"} -> "Failed to generate GitHub URL: "
    [] op \in {"getFileStatus", "getStatuses"} -> "Failed to get file status: "
    [] op = "getFileHash" -> "Failed to get file hash: "
    [] op = "getHeadRef" -> "Failed to get HEAD reference: "
    [] op = "listRefs" -> "Failed to list references: "
    [] op = "getBlob" -> "Failed to get blob: "
    [] op = "getTree" -> "Failed to get tree: "
    [] op = "getCommit" -> "Failed to get commit: "
    [] op = "getTag" -> "Failed to get tag: "
NotInitialized == "Repository not initialized. Call findRepository() first."
BatchNotInitialized == "Batch processor not initialized"

FileNames == {"a", "b"}
FileLists == UNION {[1..n -> FileNames] : n \in 0..MaxFiles}
\* What the backend answers for a file when it succeeds.
BackendValue(op, file) ==
  IF BackendMethod(op) = "get_file_status"
  THEN (IF file = "a" THEN "status:a" ELSE "status:b")
  ELSE (IF file = "a" THEN "value:a" ELSE "value:b")

NewCall(op, files, state, message, outcomes) ==
  [ op |-> op, files |-> files, state |-> state, message |-> message,
    outcomes |-> outcomes, value |-> <<>> ]

\* Mutant of CheckedCall: _checkInitialized is not called.
CheckedCall_Unchecked(op, files, ready) == NewCall(op, files, "pending", "", <<"pending">>)

\* A GitFileId operation up to its await: _checkInitialized throws, which rejects
\* the promise at once, or the backend method is invoked.
CheckedCall(op, files, ready) ==
  IF ready
  THEN NewCall(op, files, "pending", "", <<"pending">>)
  ELSE NewCall(op, files, "rejected", NotInitialized, <<>>)

\* Mutant of BatchCall: the processor does not check that it is initialized.
BatchCall_Unchecked(op, files, ready, gitReady) ==
  NewCall(op, files, "pending", "",
          [j \in 1..Len(files) |-> IF gitReady THEN "pending" ELSE "unready"])

\* generateUrls / getStatuses up to the await of Promise.allSettled: one GitFileId
\* operation is started per file.
BatchCall(op, files, ready, gitReady) ==
  IF ready
  THEN NewCall(op, files, "pending", "",
               [j \in 1..Len(files) |-> IF gitReady THEN "pending" ELSE "unready"])
  ELSE NewCall(op, files, "rejected", BatchNotInitialized, <<>>)

\* Mutant of InitializedAfter: a failed findRepository clears the flag.
InitializedAfter_ClearedOnFailure(op, ok, was) ==
  IF op \in {"findRepository", "initialize"} THEN ok ELSE was

\* this.isInitialized once the backend call of op has settled: findRepository sets
\* it after a successful find_repository, and nothing else writes it.
InitializedAfter(op, ok, was) ==
  IF ok /\ op \in {"findRepository", "initialize"} THEN TRUE ELSE was

\* The backend calls a new call record has made.
RECURSIVE Invocations(_, _)
Invocations(method, outcomes) ==
  IF outcomes = <<>> THEN <<>>
  ELSE (IF Head(outcomes) = "pending" THEN <<method>> ELSE <<>>)
         \o Invocations(method, Tail(outcomes))

InitV1 ==
  /\ isInitialized = FALSE
  /\ initialized = FALSE
  /\ calls = <<>>
  /\ backendLog = <<>>
  /\ BatchIdle
  /\ DiffIdle
  /\ IdIdle
  /\ UtilIdle

\* A method is called; it runs up to its first await.
Call ==
  /\ Len(calls) < MaxCalls
  /\ \E op \in {"findRepository", "initialize"} \cup GitOps \cup BatchOps :
       \E files \in FileLists :
         /\ op \notin BatchOps => files = <<"a">>
         /\ LET call == IF op \in {"findRepository", "initialize"}
                        THEN NewCall(op, files, "pending", "", <<"pending">>)
                        ELSE IF op \in GitOps
                        THEN CheckedCall(op, files, isInitialized)
                        ELSE BatchCall(op, files, initialized, isInitialized)
            IN /\ calls' = Append(calls, call)
               /\ backendLog' = backendLog \o Invocations(BackendMethod(op), call.outcomes)
  /\ UNCHANGED <<isInitialized, initialized, batchVars, diffVars, idVars, utilVars>>

\* One backend call settles and the method that awaited it continues.
BackendSettles ==
  \E k \in 1..Len(calls) : \E j \in 1..Len(calls[k].outcomes) : \E ok \in BOOLEAN :
    /\ calls[k].state = "pending"
    /\ calls[k].outcomes[j] = "pending"
    /\ LET op == calls[k].op
           settled == [calls[k] EXCEPT !.outcomes[j] = IF ok THEN "fulfilled" ELSE "rejected"]
       IN /\ calls' =
               [calls EXCEPT ![k] =
                  IF op \in BatchOps THEN settled
                  ELSE IF ~ok
                  THEN [settled EXCEPT !.state = "rejected", !.message = FailedMessage(op)]
                  ELSE IF op = "initialize"
                  THEN [settled EXCEPT !.state = "found"]
                  ELSE IF op = "findRepository"
                  THEN [settled EXCEPT !.state = "resolved"]
                  ELSE [settled EXCEPT !.state = "resolved",
                                       !.value = BackendValue(op, calls[k].files[1])]]
          /\ isInitialized' = InitializedAfter(op, ok, isInitialized)
    /\ UNCHANGED <<initialized, backendLog, batchVars, diffVars, idVars, utilVars>>

\* initialize continues after its findRepository call has resolved.
InitializeReturns ==
  \E k \in 1..Len(calls) :
    /\ calls[k].state = "found"
    /\ calls' = [calls EXCEPT ![k].state = "resolved"]
    /\ initialized' = TRUE
    /\ UNCHANGED <<isInitialized, backendLog, batchVars, diffVars, idVars, utilVars>>

\* The entry generateUrls / getStatuses builds for file j of a call.
BatchEntry(call, j) ==
  LET fulfilled == call.outcomes[j] = "fulfilled"
      value == IF fulfilled THEN BackendValue(call.op, call.files[j]) ELSE Null
      error == IF fulfilled THEN Null
               ELSE IF call.outcomes[j] = "unready" THEN NotInitialized
               ELSE FailedMessage(call.op)
  IN IF call.op = "generateUrls"
     THEN [filePath |-> call.files[j], url |-> value, error |-> error]
     ELSE [filePath |-> call.files[j], status |-> value, error |-> error]

\* Promise.allSettled has settled: the result array is built and returned.
BatchReturns ==
  \E k \in 1..Len(calls) :
    /\ calls[k].op \in BatchOps
    /\ calls[k].state = "pending"
    /\ \A j \in 1..Len(calls[k].outcomes) : calls[k].outcomes[j] # "pending"
    /\ calls' = [calls EXCEPT ![k].state = "resolved",
                              ![k].value = [j \in 1..Len(calls[k].files) |-> BatchEntry(calls[k], j)]]
    /\ UNCHANGED <<isInitialized, initialized, backendLog, batchVars, diffVars, idVars, utilVars>>

NextV1 == Call \/ BackendSettles \/ InitializeReturns \/ BatchReturns
SpecV1 == InitV1 /\ [][NextV1]_vars

(***************************************************************************)
(* Claims about the v1 classes, checked under SpecV1.                      *)
(***************************************************************************)

FindCalls == {k \in 1..Len(calls) : calls[k].op \in {"findRepository", "initialize"}}
\* Some findRepository call on the instance has succeeded.
SomeFindSucceeded == \E k \in FindCalls : calls[k].state \in {"resolved", "found"}
\* initialize has succeeded.
InitializeSucceeded ==
  \E k \in 1..Len(calls) : calls[k].op = "initialize" /\ calls[k].state = "resolved"
\* This step is a call of a method of ops.
Calls(ops) == Len(calls') = Len(calls) + 1 /\ calls'[Len(calls')].op \in ops

\* C25: on an instance on which no findRepository call has yet succeeded, every
\* operation fails with 'Repository not initialized' and does not reach the
\* backend instance.
C25_OperationsNeedRepository ==
  [][(Calls(GitOps) /\ ~SomeFindSucceeded) =>
       /\ calls'[Len(calls')].state = "rejected"
       /\ calls'[Len(calls')].message = NotInitialized
       /\ backendLog' = backendLog]_vars

\* C25 witness: an operation was refused after a findRepository call had failed.
C25_Witness ==
  \E k \in 1..Len(calls) : \E h \in FindCalls :
    /\ h < k
    /\ calls[h].state = "rejected"
    /\ calls[k].op \in GitOps
    /\ calls[k].state = "rejected"
    /\ calls[k].message = NotInitialized
    /\ backendLog = <<"find_repository">>

\* C26: isInitialized is true exactly when at least one findRepository call has
\* succeeded; a failed findRepository rejects with 'Failed to find repository' and
\* leaves isInitialized unchanged.
C26_InitializedIffSomeFindSucceeded ==
  /\ [](isInitialized <=> SomeFindSucceeded)
  /\ [](\A k \in FindCalls :
          calls[k].state = "rejected" => calls[k].message = "Failed to find repository: ")
  /\ [][(\E k \in FindCalls : calls[k].state = "pending" /\ calls'[k].state = "rejected")
          => isInitialized' = isInitialized]_vars

\* C26 witness: a findRepository call succeeded, and a later one failed.
C26_Witness ==
  \E h \in FindCalls : \E k \in FindCalls :
    /\ h < k
    /\ calls[h].state = "resolved"
    /\ calls[k].state = "rejected"
    /\ isInitialized

EntryValue(e) == IF "url" \in DOMAIN e THEN e.url ELSE e.status
BatchCalls == {k \in 1..Len(calls) : calls[k].op \in BatchOps}

\* C27: on an initialized GitBatchProcessor generateUrls and getStatuses resolve to
\* an array with the length and order of filePaths, entry j having filePath =
\* filePaths[j] and exactly one of its value and error non-null, whatever happens
\* to the other files; before initialize succeeds both reject with 'Batch
\* processor not initialized'.
C27_OneEntryPerFile ==
  /\ [](\A k \in BatchCalls :
          /\ calls[k].state = "resolved" =>
               /\ Len(calls[k].value) = Len(calls[k].files)
               /\ \A j \in 1..Len(calls[k].files) :
                    /\ calls[k].value[j].filePath = calls[k].files[j]
                    /\ (EntryValue(calls[k].value[j]) # Null)
                         # (calls[k].value[j].error # Null)
                    /\ (EntryValue(calls[k].value[j]) # Null)
                         <=> calls[k].outcomes[j] = "fulfilled"
          /\ calls[k].state = "rejected" => calls[k].message = BatchNotInitialized)
  /\ [][Calls(BatchOps) =>
          (calls'[Len(calls')].state = "rejected" <=> ~InitializeSucceeded)]_vars

\* C27 witness: a call for two files resolved, one file having failed.
C27_Witness ==
  \E k \in BatchCalls :
    /\ calls[k].state = "resolved"
    /\ calls[k].outcomes = <<"fulfilled", "rejected">>
    /\ calls[k].value[2].error # Null

(***************************************************************************)
(* Progress of the batch orchestrator (src/mjs/src/utils/git.mjs, lines    *)
(* 276-303), checked under FairSpecBatch: SpecBatch with the scheduling    *)
(* the event loop provides.                                                *)
(***************************************************************************)

\* The adapter call of item k, if the batch has an item k, eventually settles.
SettleItem(k) == k \in Items /\ Settle(k)

\* A continuation that is ready to run is run by the event loop (the loop body after
\* an await that has resolved, lines 281-297, and the return on lines 299-303), and
\* every adapter call that is in flight eventually settles (lines 242-247).
BatchFairness ==
  /\ WF_vars(StartItem)
  /\ WF_vars(RaceFulfilled)
  /\ WF_vars(RaceRejected)
  /\ WF_vars(AllSettled)
  /\ \A k \in 1..MaxItems : WF_vars(SettleItem(k))

FairSpecBatch == InitBatch /\ [][NextBatch]_vars /\ BatchFairness

\* Unstarted items remain while some started item has already settled.
AdmissionDue(n) ==
  /\ Cardinality(Started) = n
  /\ n < total
  /\ \E k \in Items : IsSettled(k)

\* C28: with continueOnError true and every adapter call eventually settling, each
\* input item is eventually started, a settled item with unstarted items remaining
\* leads to the admission of a new item, and the batch promise eventually resolves.
C28_EveryItemStartedAndBatchResolves ==
  continueOnError =>
    /\ \A k \in 1..MaxItems : <>(k \in Items => k \in Started)
    /\ \A n \in 0..MaxItems : AdmissionDue(n) ~> (Cardinality(Started) > n)
    /\ <>(pc = "resolved")

\* C28 witness: a batch of more items than the concurrency limit, with a failing item
\* and an item that passed through the adapter, has started every item and resolved.
C28_Witness ==
  /\ continueOnError
  /\ pc = "resolved"
  /\ total > concurrency
  /\ Started = Items
  /\ \E k \in Items : Threw(inputs[k])
  /\ \E k \in Items : inputs[k] # "invalid"

\* The number of times the progress callback has fired for item k.
ProgressCalls(k) ==
  Cardinality({j \in 1..Len(progressLog) : progressLog[j].item = k})

\* Item k has run to its own outcome: its promise and its result say whether its
\* own pipeline threw.
OwnOutcome(k) ==
  /\ IsSettled(k)
  /\ promise[k] = (IF Threw(inputs[k]) THEN "rejected" ELSE "fulfilled")
  /\ result[k].status = (IF Threw(inputs[k]) THEN "error" ELSE "success")

RanToCompletion(k) == k \in Items /\ OwnOutcome(k)

\* C29: with continueOnError false a started item is never interrupted: an item in
\* flight stays in flight until it settles with its own outcome, it does settle,
\* also once the batch has rejected, and its progress callback fires exactly once,
\* when it settles.
C29_StartedItemsRunToCompletion ==
  /\ \A k \in 1..MaxItems : (~continueOnError /\ k \in InFlight) ~> RanToCompletion(k)
  /\ [][~continueOnError =>
          \A k \in InFlight :
            \/ k \in InFlight' /\ result'[k] = result[k]
            \/ /\ OwnOutcome(k)'
               /\ progressCallback => ProgressCalls(k)' = 1]_vars
  /\ []((~continueOnError /\ progressCallback) =>
          \A k \in Items : ProgressCalls(k) = (IF IsSettled(k) THEN 1 ELSE 0))

\* C29 witness: the batch has rejected on a failed item, and an item that was in
\* flight with it has since succeeded and reported its progress as the second call.
C29_Witness ==
  /\ ~continueOnError
  /\ progressCallback
  /\ pc = "rejected"
  /\ \E k, f \in Items :
       /\ promise[f] = "rejected"
       /\ rejection = result[f].error
       /\ promise[k] = "fulfilled"
       /\ result[k].status = "success"
       /\ Len(progressLog) = 2
       /\ progressLog[1].item = f
       /\ progressLog[2].item = k

====
